---- MODULE Spec2Model ----
(***************************************************************************)
(* A model of flux_generator.py: one invocation of the command line tool.  *)
(* process_all_prompts runs one batch (process_generation) per prompt; a   *)
(* batch fans out args.n requests, consumes them in completion order,      *)
(* downloads the media of each successful result, and ends with cleanup   *)
(* (metadata.json, then the removal of the zero-byte files).               *)
(*                                                                         *)
(* Every asyncio task is a process; a step of a task runs from one await   *)
(* to the next. The remote service, the HTTP server and the file system    *)
(* are the environment: what a call returns is chosen nondeterministically.*)
(***************************************************************************)
EXTENDS Integers, Sequences, FiniteSets, TLC

\* ------------------------------------------------------------------ bounds
MaxCount == 2
MaxMedia == 2
MaxPrompts == 2
MaxPolls == 2
MaxSeed == 2
MaxStem == 9
MaxTail == 3
MaxLogs == 2

\* --------------------------------------------------------------- constants
POLL_INTERVAL == 2
ID_LEN == 8
HTTP_OK == 200
MIN_GUIDANCE == 1
MAX_GUIDANCE == 20
MIN_STEPS == 1
MAX_STEPS == 50
MIN_DIM == 256
MAX_DIM == 14142
QUEUE_MODES == {"subscribe", "submit", "run"}

\* The values of --poll the model tries: the default and another one.
PollOptions == {POLL_INTERVAL, POLL_INTERVAL + 3}

Requests == 1..MaxCount
Media == 1..(MaxMedia + 1)
\* MaxCount bounds the requests of an invocation (args.n for every prompt),
\* MaxMedia the media the service returns during an invocation, MaxPrompts the
\* prompts of a file, MaxPolls the status queries counted per batch.

\* Output directories: 0 is the directory given with -od, p > 0 is
\* generated/<hash of prompt p>.
Dirs == 0..MaxPrompts
Prompts == 1..MaxPrompts

VARIABLES
    args,       \* the parsed command line (argparse.Namespace)
    mainpc,     \* where the main coroutine is
    b,          \* the index of the prompt being processed (0: none yet)
    pc,         \* pc[i]: where request task i of the batch is
    ret,        \* ret[i]: what process_single_image returned for request i
    status,     \* status[i]: the local status of submit_request in task i
    calls,      \* the calls of fal_client made in the batch, by kind
    poll,       \* the poll argument the request tasks were created with
    slept,      \* the intervals passed to asyncio.sleep so far
    doneQ,      \* completed requests asyncio.as_completed has not handed out yet
    order,      \* every request of the batch, in completion order
    consumed,   \* iterations of the as_completed loop started
    results,    \* generate_images: results
    failed,     \* generate_images: failed
    cur,        \* the request whose media are being saved (0: none)
    dl,         \* dl[j]: where download task j of the current result is
    orphans,    \* orphans[p]: downloads of prompt p left running by a gather that
                \* raised, by stage, and their files lost to cleanup after the write
    nEmpty,     \* nEmpty[d]: zero-byte media files in directory d
    nData,      \* nData[d]: non-empty media files in directory d
    meta,       \* meta[d]: metadata.json of directory d
    metaOpens,  \* metaOpens[d]: times metadata.json of d was opened for writing
    lateMedia,  \* lateMedia[d]: a media file of d was written after its metadata.json
    cleanups,   \* calls of cleanup in the current batch
    issued,     \* media downloads started so far in the invocation
    env,        \* the environment of the process: the value of FAL_KEY
    call,       \* a function of the module called on its own: name, input, output
    exitcode    \* the exit status of the process, once it has ended

vars == <<env, call, exitcode, args, mainpc, b, pc, ret, status, calls, poll, slept, doneQ, order,
          consumed, results, failed, cur, dl, orphans, nEmpty, nData, meta,
          metaOpens, lateMedia, cleanups, issued>>

reqVars == <<pc, ret, status, calls, slept, doneQ, order>>
loopVars == <<consumed, results, failed, cur, dl, issued>>
fsVars == <<orphans, nEmpty, nData, meta, metaOpens, lateMedia>>

\* ------------------------------------------------------------ pure helpers

\* get_prompt_hash: the directory name derived from the prompt.
get_prompt_hash(prompt) == prompt

\* setup_output_dir(prompt, custom_dir): custom_dir when given, else the
\* directory named after the prompt's hash.
setup_output_dir(prompt, custom_dir) ==
    IF custom_dir THEN 0 ELSE get_prompt_hash(prompt)

\* process_all_prompts: the directory of prompt p. A prompt given with -p is
\* set up without args.od; the prompts of a file are set up with it.
OutDir(a, p) ==
    IF a.file THEN setup_output_dir(p, a.od) ELSE setup_output_dir(p, FALSE)

\* The number of prompts of the invocation.
NumPrompts(a) == IF a.file THEN a.prompts ELSE 1

\* The directory of the current batch.
out_dir == OutDir(args, b)

\* The final result the service produces for request i of prompt p.
ServiceResult(p, i) == [prompt |-> p, request |-> i]

\* The handle submit_async returns for request i.
Handle(p, i) == [request_id |-> <<p, i>>]

NoResult == [prompt |-> 0, request |-> 0]

\* json.dumps(results, indent=4): the text, as a sequence of tokens.
Dumps(rs) ==
    <<[tok |-> "[", val |-> NoResult]>>
    \o [k \in 1..Len(rs) |-> [tok |-> "item", val |-> rs[k]]]
    \o <<[tok |-> "]", val |-> NoResult]>>

\* json.load of a text: the list it denotes (the empty list for a text that
\* is no JSON document).
Loads(text) ==
    IF Len(text) < 2 THEN <<>>
    ELSE [k \in 1..(Len(text) - 2) |-> text[k + 1].val]

NoFile == [exists |-> FALSE, content |-> <<>>]

NoCalls == [run |-> 0, subscribe |-> 0, submit |-> 0, status |-> 0, result |-> 0]

\* One more call of a kind; status queries are counted up to MaxPolls.
Called(c, kind) ==
    [c EXCEPT ![kind] = IF kind = "status" /\ @ >= MaxPolls THEN @ ELSE @ + 1]

NoOrphans == [get |-> 0, open |-> 0, read |-> 0, write |-> 0, unlinked |-> 0, lost |-> 0]

Terminal == {"done", "raised"}

\* ------------------------------------------------------------------- Init

\* An absent optional value (None), and a supplied one.
None == <<>>
Some(v) == <<v>>

\* No function is called on its own.
NoCall == [fn |-> "none", in |-> None, out |-> None]

\* ---------------------------------------- the options and their validation

MODELS == {"pro", "ultra"}

\* The truth value Python gives an optional string, an optional int.
TruthyText(x) == x # None /\ x[1] # ""
TruthyInt(x) == x # None /\ x[1] # 0

\* A range test that leaves the two ends out.
InsideRange(lo, x, hi) == lo < x /\ x < hi

\* lo <= x <= hi
InRange(lo, x, hi) == lo <= x /\ x <= hi

\* A guidance test that refuses the two ends.
GuidanceInsideRange(g) == InsideRange(2 * MIN_GUIDANCE, g, 2 * MAX_GUIDANCE)

\* -g is a float: the model counts it in halves (3 is 1.5).
GuidanceInRange(g) == InRange(2 * MIN_GUIDANCE, g, 2 * MAX_GUIDANCE)

\* validate_pro_args: the ValueError it raises, if any.
validate_pro_args(a) ==
    IF a.g # None /\ ~GuidanceInRange(a.g[1]) THEN Some("guidance")
    ELSE IF a.i # None /\ ~InRange(MIN_STEPS, a.i[1], MAX_STEPS) THEN Some("steps")
    ELSE IF TruthyInt(a.w) # TruthyInt(a.height) THEN Some("pair")
    ELSE IF /\ TruthyInt(a.w) /\ TruthyInt(a.height)
            /\ ~(InRange(MIN_DIM, a.w[1], MAX_DIM) /\ InRange(MIN_DIM, a.height[1], MAX_DIM))
         THEN Some("dimensions")
    ELSE None

\* A validation that checks the pro parameters for every model.
ChecksProAlways(model) == TRUE

\* validate_model_args calls validate_pro_args for these models.
ChecksPro(model) == model # "ultra"

\* validate_model_args: the warning printed and the ValueError raised, if any.
validate_model_args(a) ==
    [warning |-> IF a.model = "ultra"
                 THEN \/ TruthyText(a.size) \/ TruthyInt(a.g) \/ TruthyInt(a.i)
                      \/ TruthyInt(a.w) \/ TruthyInt(a.height)
                 ELSE TruthyText(a.a) \/ a.raw,
     error |-> IF ChecksPro(a.model) THEN validate_pro_args(a) ELSE None]

GuidanceValues ==
    {None} \cup {Some(x) : x \in {0, 2 * MIN_GUIDANCE - 1, 2 * MIN_GUIDANCE,
                                  2 * MAX_GUIDANCE, 2 * MAX_GUIDANCE + 1}}
StepsValues ==
    {None} \cup {Some(x) : x \in {0 - 1, 0, MIN_STEPS, MAX_STEPS, MAX_STEPS + 1}}
DimValues ==
    {None} \cup {Some(x) : x \in {0, MIN_DIM - 1, MIN_DIM, MAX_DIM, MAX_DIM + 1}}

\* The namespaces validate_model_args is tried on.
ValidateInputs ==
    [model : MODELS, g : GuidanceValues, i : StepsValues, w : DimValues,
     height : DimValues, size : {Some("landscape_16_9")},
     a : {None, Some("16:9")}, raw : BOOLEAN]

\* The options of the command line that validate_model_args reads, as the
\* parser leaves them when none is given.
NoOptions ==
    [model |-> "pro", g |-> None, i |-> None, w |-> None, height |-> None,
     size |-> Some("landscape_16_9"), a |-> Some("16:9"), raw |-> FALSE]

\* The options of a run: none, a guidance above the range, a width alone.
RunOptions ==
    {NoOptions,
     [NoOptions EXCEPT !.g = Some(2 * MAX_GUIDANCE + 1)],
     [NoOptions EXCEPT !.w = Some(MIN_DIM)]}

\* The values of FAL_KEY: not set, set to the empty string, set to a key.
KeyValues == {None, Some(""), Some("key")}

\* The state of a process that has just started.
Fresh ==
    /\ mainpc = "start"
    /\ exitcode = None
    /\ b = 0
    /\ pc = [i \in Requests |-> "unused"]
    /\ ret = [i \in Requests |-> NoResult]
    /\ status = [i \in Requests |-> "none"]
    /\ calls = NoCalls
    /\ poll = POLL_INTERVAL
    /\ slept = {}
    /\ doneQ = <<>>
    /\ order = <<>>
    /\ consumed = 0
    /\ results = <<>>
    /\ failed = 0
    /\ cur = 0
    /\ dl = <<>>
    /\ orphans = [p \in Prompts |-> NoOrphans]
    /\ nEmpty = [d \in Dirs |-> 0]
    /\ nData = [d \in Dirs |-> 0]
    /\ meta = [d \in Dirs |-> NoFile]
    /\ metaOpens = [d \in Dirs |-> 0]
    /\ lateMedia = [d \in Dirs |-> FALSE]
    /\ cleanups = 0
    /\ issued = 0

Init ==
    /\ args \in [q : QUEUE_MODES, n : 0..MaxCount, poll : PollOptions,
                 file : BOOLEAN, od : BOOLEAN, prompts : 1..MaxPrompts,
                 opts : RunOptions]
    /\ ~args.file => args.prompts = 1
    /\ args.n * args.prompts <= MaxCount
    /\ env \in [FAL_KEY : KeyValues]
    /\ call = NoCall
    /\ Fresh

\* ------------------------------------------------------ main: the start

\* A check that takes every value FAL_KEY is set to, the empty one too.
KeyIsSet(key) == key # None

\* check_api_key: `not key` is false.
HasKey(key) == TruthyText(key)

\* main, check_api_key(): without a key the process ends with status 1,
\* before the command line is parsed.
CheckApiKey ==
    /\ mainpc = "start"
    /\ IF HasKey(env.FAL_KEY)
       THEN mainpc' = "parse" /\ UNCHANGED exitcode
       ELSE mainpc' = "abort" /\ exitcode' = Some(1)
    /\ UNCHANGED <<env, call, args, b, reqVars, poll, loopVars, fsVars, cleanups>>

\* main, parse_args() and validate_model_args(args): a ValueError reaches the
\* except clause of main, which prints it and ends the process with status 1;
\* otherwise process_all_prompts starts.
ValidateOptions ==
    /\ mainpc = "parse"
    /\ IF validate_model_args(args.opts).error = None
       THEN mainpc' = "prompts" /\ UNCHANGED exitcode
       ELSE mainpc' = "abort" /\ exitcode' = Some(1)
    /\ UNCHANGED <<env, call, args, b, reqVars, poll, loopVars, fsVars, cleanups>>

\* ------------------------------------------------- the batch: fan-out

\* The poll argument generate_images gives process_single_image: none, so
\* the parameter takes its default.
TaskPoll(a) == POLL_INTERVAL

\* process_single_image: the first step of a task, by queue mode.
FirstStep(mode) ==
    IF mode = "subscribe" THEN "subscribe"
    ELSE IF mode = "submit" THEN "submit"
    ELSE "run"

\* process_generation up to the first await of generate_images: the batch
\* state is fresh and one task per request exists.
ProcessGeneration ==
    /\ mainpc = "prompts"
    /\ b < NumPrompts(args)
    /\ b' = b + 1
    /\ mainpc' = "generate"
    /\ pc' = [i \in Requests |-> IF i <= args.n THEN FirstStep(args.q) ELSE "unused"]
    /\ ret' = [i \in Requests |-> NoResult]
    /\ status' = [i \in Requests |-> "none"]
    /\ calls' = NoCalls
    /\ poll' = TaskPoll(args)
    /\ doneQ' = <<>>
    /\ order' = <<>>
    /\ consumed' = 0
    /\ results' = <<>>
    /\ failed' = 0
    /\ cur' = 0
    /\ dl' = <<>>
    /\ cleanups' = 0
    /\ UNCHANGED <<env, call, exitcode, args, slept, fsVars, issued>>

\* ------------------------------------------------- the request dispatcher

\* The request tasks run while generate_images awaits.
TasksRun == mainpc \in {"generate", "gather"}

\* A task returns value: it is done (its locals are gone) and as_completed
\* queues it.
Return(i, value) ==
    /\ pc' = [pc EXCEPT ![i] = "done"]
    /\ ret' = [ret EXCEPT ![i] = value]
    /\ status' = [status EXCEPT ![i] = "none"]
    /\ doneQ' = Append(doneQ, i)
    /\ order' = Append(order, i)

\* The exception a call of fal_client (run, subscribe, submit, status or
\* result) raises in the task of request i of prompt p.
ClientError(kind, p, i) == [error |-> kind, prompt |-> p, request |-> i]

\* A dispatcher that catches the exception and raises one of its own.
Wrapped(e) == [e EXCEPT !.error = "dispatch"]

\* What leaves process_single_image when a client call raises e: neither
\* submit_request nor process_single_image has an except clause.
Reraised(e) == e

\* A client call of the task raises e: the task ends with the exception and
\* as_completed queues it.
Raise(i, e) ==
    /\ pc' = [pc EXCEPT ![i] = "raised"]
    /\ ret' = [ret EXCEPT ![i] = Reraised(e)]
    /\ status' = [status EXCEPT ![i] = "none"]
    /\ doneQ' = Append(doneQ, i)
    /\ order' = Append(order, i)

\* run_request returns what run_async returned.
RunReturn(response) == response

\* The subscribe branch of process_single_image returns what subscribe_async
\* returned.
SubscribeReturn(response) == response

\* A submit_request that returns the handle of submit_async.
SubmitReturnsHandle(handler, fetched) == handler

\* submit_request returns what result_async returned.
SubmitReturn(handler, fetched) == fetched

\* A test that takes every status but IN_PROGRESS for the completion.
IsNotInProgress(st) == st # "IN_PROGRESS"

\* submit_request leaves its loop on this status only.
IsCompleted(st) == st = "COMPLETED"

StatusAnswers == {"IN_QUEUE", "IN_PROGRESS", "COMPLETED"}

\* A loop that queries again at once when the request is not completed.
AfterStatusNoSleep(st) == IF IsCompleted(st) THEN "result" ELSE "status"

\* submit_request, after a status query: the result is fetched when the
\* status is the completion, otherwise the task sleeps.
AfterStatus(st) == IF IsCompleted(st) THEN "result" ELSE "sleep"

\* mode "run": one call of run_async.
RunRequest(i) ==
    /\ TasksRun
    /\ pc[i] = "run"
    /\ calls' = Called(calls, "run")
    /\ \/ Return(i, RunReturn(ServiceResult(b, i)))
       \/ Raise(i, ClientError("run", b, i))
    /\ UNCHANGED <<env, call, exitcode, args, mainpc, b, poll, slept, loopVars, fsVars, cleanups>>

\* mode "subscribe": one call of subscribe_async.
SubscribeRequest(i) ==
    /\ TasksRun
    /\ pc[i] = "subscribe"
    /\ calls' = Called(calls, "subscribe")
    /\ \/ Return(i, SubscribeReturn(ServiceResult(b, i)))
       \/ Raise(i, ClientError("subscribe", b, i))
    /\ UNCHANGED <<env, call, exitcode, args, mainpc, b, poll, slept, loopVars, fsVars, cleanups>>

\* mode "submit": submit_async gives the handle.
SubmitCall(i) ==
    /\ TasksRun
    /\ pc[i] = "submit"
    /\ calls' = Called(calls, "submit")
    /\ \/ /\ pc' = [pc EXCEPT ![i] = "status"]
          /\ UNCHANGED <<ret, status, doneQ, order>>
       \/ Raise(i, ClientError("submit", b, i))
    /\ UNCHANGED <<env, call, exitcode, args, mainpc, b, poll, slept, loopVars, fsVars, cleanups>>

\* One status query and the test of its answer.
StatusQuery(i) ==
    /\ TasksRun
    /\ pc[i] = "status"
    /\ calls' = Called(calls, "status")
    /\ \/ \E st \in StatusAnswers :
            /\ status' = [status EXCEPT ![i] = st]
            /\ pc' = [pc EXCEPT ![i] = AfterStatus(st)]
            /\ UNCHANGED <<ret, doneQ, order>>
       \/ Raise(i, ClientError("status", b, i))
    /\ UNCHANGED <<env, call, exitcode, args, mainpc, b, poll, slept, loopVars, fsVars, cleanups>>

\* asyncio.sleep(poll), then the loop repeats.
Sleep(i) ==
    /\ TasksRun
    /\ pc[i] = "sleep"
    /\ slept' = slept \cup {poll}
    /\ pc' = [pc EXCEPT ![i] = "status"]
    /\ UNCHANGED <<env, call, exitcode, args, mainpc, b, ret, status, calls, poll, doneQ, order,
                   loopVars, fsVars, cleanups>>

\* result_async after the COMPLETED status.
ResultFetch(i) ==
    /\ TasksRun
    /\ pc[i] = "result"
    /\ calls' = Called(calls, "result")
    /\ \/ Return(i, SubmitReturn(Handle(b, i), ServiceResult(b, i)))
       \/ Raise(i, ClientError("result", b, i))
    /\ UNCHANGED <<env, call, exitcode, args, mainpc, b, poll, slept, loopVars, fsVars, cleanups>>

\* ------------------------------------------------- the batch: the loop

\* A loop that takes the completed requests by request index.
NextByIndex(q) == CHOOSE k \in 1..Len(q) : \A m \in 1..Len(q) : q[k] <= q[m]

\* asyncio.as_completed hands out the request that completed first: the
\* position in the queue of the next one.
NextCompleted(q) == 1

RemoveAt(q, pos) == SubSeq(q, 1, pos - 1) \o SubSeq(q, pos + 1, Len(q))

\* The media the service returns during an invocation are bounded; an
\* invocation in mode run, whose requests are one call each, gets one more.
MediaBound(a) == IF a.q = "run" THEN MaxMedia + 1 ELSE MaxMedia

\* One iteration of the loop of generate_images, up to its next await: the
\* next completed request is awaited; an error is counted, a result with no
\* media is appended, a result with k media starts its k downloads.
AwaitResult ==
    /\ mainpc = "generate"
    /\ consumed < args.n
    /\ doneQ # <<>>
    /\ LET pos == NextCompleted(doneQ)
           i == doneQ[pos]
       IN  /\ doneQ' = RemoveAt(doneQ, pos)
           /\ consumed' = consumed + 1
           /\ \/ /\ pc[i] = "raised"
                 /\ failed' = failed + 1
                 /\ UNCHANGED <<mainpc, results, cur, dl, issued>>
              \/ /\ pc[i] = "done"
                 /\ results' = Append(results, ret[i])
                 /\ UNCHANGED <<mainpc, failed, cur, dl, issued>>
              \/ /\ pc[i] = "done"
                 /\ \E k \in 1..(MediaBound(args) - issued) :
                        /\ dl' = [j \in 1..k |-> "get"]
                        /\ issued' = issued + k
                 /\ cur' = i
                 /\ mainpc' = "gather"
                 /\ UNCHANGED <<results, failed>>
    /\ UNCHANGED <<env, call, exitcode, args, b, pc, ret, status, calls, poll, slept, order, fsVars, cleanups>>

\* --------------------------------------------------- the media downloader

Live == {"get", "open", "read"}

\* A media file of directory d is created or written now: late when the
\* directory's metadata.json is already there.
Late(d) == [lateMedia EXCEPT ![d] = @ \/ meta[d].exists]

\* download_image, session.get: the status is 200, or another one (the task
\* returns None), or the GET raises.
DownloadGet(j) ==
    /\ mainpc = "gather"
    /\ j \in DOMAIN dl
    /\ dl[j] = "get"
    /\ \E next \in {"open", "none", "raised"} : dl' = [dl EXCEPT ![j] = next]
    /\ UNCHANGED <<env, call, exitcode, args, mainpc, b, reqVars, poll, consumed, results, failed, cur,
                   issued, fsVars, cleanups>>

\* download_image, aiofiles.open(fname, 'wb'): the file exists and is empty.
DownloadOpen(j) ==
    /\ mainpc = "gather"
    /\ j \in DOMAIN dl
    /\ dl[j] = "open"
    /\ dl' = [dl EXCEPT ![j] = "read"]
    /\ nEmpty' = [nEmpty EXCEPT ![out_dir] = @ + 1]
    /\ lateMedia' = Late(out_dir)
    /\ UNCHANGED <<env, call, exitcode, args, mainpc, b, reqVars, poll, consumed, results, failed, cur,
                   issued, orphans, nData, meta, metaOpens, cleanups>>

\* download_image, resp.read() and f.write: the body is written (it may be
\* empty), or reading it raises and the file stays as opened.
DownloadRead(j) ==
    /\ mainpc = "gather"
    /\ j \in DOMAIN dl
    /\ dl[j] = "read"
    /\ \/ /\ dl' = [dl EXCEPT ![j] = "done"]
          /\ nEmpty' = [nEmpty EXCEPT ![out_dir] = @ - 1]
          /\ nData' = [nData EXCEPT ![out_dir] = @ + 1]
          /\ lateMedia' = Late(out_dir)
       \/ /\ dl' = [dl EXCEPT ![j] = "done"]
          /\ UNCHANGED <<nEmpty, nData, lateMedia>>
       \/ /\ dl' = [dl EXCEPT ![j] = "raised"]
          /\ UNCHANGED <<nEmpty, nData, lateMedia>>
    /\ UNCHANGED <<env, call, exitcode, args, mainpc, b, reqVars, poll, consumed, results, failed, cur,
                   issued, orphans, meta, metaOpens, cleanups>>

Count(f, v) == Cardinality({j \in DOMAIN f : f[j] = v})

RECURSIVE SumOver(_, _)
SumOver(f, S) ==
    IF S = {} THEN 0
    ELSE LET x == CHOOSE y \in S : TRUE IN f[x] + SumOver(f, S \ {x})

\* asyncio.gather returned the outcomes of all downloads: save_generated_images
\* returns and the result is appended.
GatherReturn ==
    /\ mainpc = "gather"
    /\ \A j \in DOMAIN dl : dl[j] \in {"done", "none"}
    /\ results' = Append(results, ret[cur])
    /\ dl' = <<>>
    /\ cur' = 0
    /\ mainpc' = "generate"
    /\ UNCHANGED <<env, call, exitcode, args, b, reqVars, poll, consumed, failed, issued, fsVars, cleanups>>

\* asyncio.gather raised the exception of a download: its other downloads are
\* not cancelled and keep running; the exception leaves download_all_images
\* and save_generated_images and is caught in generate_images.
GatherRaise ==
    /\ mainpc = "gather"
    /\ \E j \in DOMAIN dl : dl[j] = "raised"
    /\ failed' = failed + 1
    /\ orphans' = [orphans EXCEPT ![b] =
                     [@ EXCEPT !.get = @ + Count(dl, "get"),
                               !.open = @ + Count(dl, "open"),
                               !.read = @ + Count(dl, "read")]]
    /\ dl' = <<>>
    /\ cur' = 0
    /\ mainpc' = "generate"
    /\ UNCHANGED <<env, call, exitcode, args, b, reqVars, poll, consumed, results, issued, nEmpty, nData,
                   meta, metaOpens, lateMedia, cleanups>>

\* The tasks a gather left behind run whenever the main coroutine awaits.
OrphansRun == mainpc \in {"generate", "gather", "cleanup", "write", "walk"}

Moved(o, from, to) ==
    IF to = "gone" THEN [o EXCEPT ![from] = @ - 1]
    ELSE [o EXCEPT ![from] = @ - 1, ![to] = @ + 1]

\* download_image in a task left behind by prompt p, session.get.
OrphanGet(p) ==
    /\ OrphansRun
    /\ orphans[p].get > 0
    /\ \E to \in {"open", "gone"} : orphans' = [orphans EXCEPT ![p] = Moved(@, "get", to)]
    /\ UNCHANGED <<env, call, exitcode, args, mainpc, b, reqVars, poll, loopVars, nEmpty, nData, meta,
                   metaOpens, lateMedia, cleanups>>

\* aiofiles hands its open to a thread of the executor: the thread runs
\* whatever the main coroutine does, until the event loop ends.
ThreadsRun == mainpc \notin {"exit", "error"}

\* download_image in a task left behind, aiofiles.open: the thread creates the
\* file.
OrphanOpen(p) ==
    /\ ThreadsRun
    /\ orphans[p].open > 0
    /\ orphans' = [orphans EXCEPT ![p] = Moved(@, "open", "read")]
    /\ nEmpty' = [nEmpty EXCEPT ![OutDir(args, p)] = @ + 1]
    /\ lateMedia' = Late(OutDir(args, p))
    /\ UNCHANGED <<env, call, exitcode, args, mainpc, b, reqVars, poll, loopVars, nData, meta,
                   metaOpens, cleanups>>

\* download_image in a task left behind, resp.read(): the body arrives and
\* f.write is handed to a thread of the executor, or the read raises.
OrphanRead(p) ==
    /\ OrphansRun
    /\ orphans[p].read > 0
    /\ \E to \in {"write", "gone"} : orphans' = [orphans EXCEPT ![p] = Moved(@, "read", to)]
    /\ UNCHANGED <<env, call, exitcode, args, mainpc, b, reqVars, poll, loopVars, nEmpty, nData, meta,
                   metaOpens, lateMedia, cleanups>>

\* download_image in a task left behind, f.write: the thread writes the body
\* (it may be empty).
OrphanWrite(p) ==
    /\ ThreadsRun
    /\ orphans[p].write > 0
    /\ orphans' = [orphans EXCEPT ![p] = Moved(@, "write", "gone")]
    /\ \/ /\ nEmpty' = [nEmpty EXCEPT ![OutDir(args, p)] = @ - 1]
          /\ nData' = [nData EXCEPT ![OutDir(args, p)] = @ + 1]
          /\ lateMedia' = Late(OutDir(args, p))
       \/ UNCHANGED <<nEmpty, nData, lateMedia>>
    /\ UNCHANGED <<env, call, exitcode, args, mainpc, b, reqVars, poll, loopVars, meta, metaOpens, cleanups>>

\* The same, for a file that cleanup has removed meanwhile: the write goes to
\* the unlinked file and the directory does not change.
OrphanReadUnlinked(p) ==
    /\ OrphansRun
    /\ orphans[p].unlinked > 0
    /\ orphans' = [orphans EXCEPT ![p] = Moved(@, "unlinked", "gone")]
    /\ UNCHANGED <<env, call, exitcode, args, mainpc, b, reqVars, poll, loopVars, nEmpty, nData, meta,
                   metaOpens, lateMedia, cleanups>>

\* ------------------------------------------------------ the run finalizer

\* The loop of generate_images is over: the function returns results, and
\* process_generation calls cleanup, which asks for metadata.json to be opened.
GenerateReturn ==
    /\ mainpc = "generate"
    /\ consumed = args.n
    /\ mainpc' = "cleanup"
    /\ cleanups' = cleanups + 1
    /\ UNCHANGED <<env, call, exitcode, args, b, reqVars, poll, loopVars, fsVars>>

\* cleanup, aiofiles.open(metadata.json, "w"): the file is created or
\* truncated.
CleanupOpen ==
    /\ mainpc = "cleanup"
    /\ meta' = [meta EXCEPT ![out_dir] = [exists |-> TRUE, content |-> <<>>]]
    /\ metaOpens' = [metaOpens EXCEPT ![out_dir] = @ + 1]
    /\ mainpc' = "write"
    /\ UNCHANGED <<env, call, exitcode, args, b, reqVars, poll, loopVars, orphans, nEmpty, nData,
                   lateMedia, cleanups>>

\* cleanup, f.write(json.dumps(results)) and the end of the with block: the
\* text is in the file.
CleanupWrite ==
    /\ mainpc = "write"
    /\ meta' = [meta EXCEPT ![out_dir] = [exists |-> TRUE, content |-> Dumps(results)]]
    /\ mainpc' = "walk"
    /\ UNCHANGED <<env, call, exitcode, args, b, reqVars, poll, loopVars, orphans, nEmpty, nData,
                   metaOpens, lateMedia, cleanups>>

\* What the end of the event loop does to the tasks left behind: all are
\* cancelled; an open or a write already handed to the executor may still
\* create or fill its file.
ShutDown ==
    /\ orphans' = [p \in Prompts |-> [NoOrphans EXCEPT !.lost = orphans[p].lost]]
    /\ \E created, written \in [Prompts -> 0..MediaBound(args)] :
           /\ \A p \in Prompts : created[p] <= orphans[p].open
           /\ \A p \in Prompts : written[p] <= orphans[p].write
           /\ nEmpty' = [d \in Dirs |->
                 nEmpty[d] + SumOver(created, {p \in Prompts : OutDir(args, p) = d})
                           - SumOver(written, {p \in Prompts : OutDir(args, p) = d})]
           /\ nData' = [d \in Dirs |->
                 nData[d] + SumOver(written, {p \in Prompts : OutDir(args, p) = d})]

\* cleanup, the write raises (an OSError): the error reaches main, which prints
\* it and exits with status 1.
CleanupWriteFails ==
    /\ mainpc = "write"
    /\ mainpc' = "error"
    /\ exitcode' = Some(1)
    /\ ShutDown
    /\ UNCHANGED <<env, call, args, b, reqVars, poll, loopVars, meta, metaOpens,
                   lateMedia, cleanups>>

\* The size of metadata.json of directory d.
MetaSize(d) == Len(meta[d].content)

\* cleanup removes the files of this size.
IsEmptyFile(size) == size = 0

\* cleanup, the walk over out_dir: every file found with size zero is
\* removed; then cleanup and process_generation return. A task left behind
\* that has its file open keeps writing to the removed file. The walk blocks
\* the event loop, not the executor: a write already handed to a thread may
\* fill its file after os.path.getsize found it empty and before os.remove.
CleanupWalk ==
    /\ mainpc = "walk"
    /\ nEmpty' = [nEmpty EXCEPT ![out_dir] = IF IsEmptyFile(0) THEN 0 ELSE @]
    /\ meta' = [meta EXCEPT ![out_dir] =
                  IF @.exists /\ IsEmptyFile(MetaSize(out_dir)) THEN NoFile ELSE @]
    /\ \E raced \in [Prompts -> 0..MediaBound(args)] :
           /\ \A p \in Prompts : raced[p] <= orphans[p].write
           /\ orphans' = [p \in Prompts |->
                 IF OutDir(args, p) = out_dir /\ IsEmptyFile(0)
                 THEN [orphans[p] EXCEPT
                          !.read = 0, !.write = 0,
                          !.unlinked = @ + orphans[p].read + orphans[p].write - raced[p],
                          !.lost = @ + raced[p]]
                 ELSE orphans[p]]
    /\ mainpc' = "prompts"
    /\ UNCHANGED <<env, call, exitcode, args, b, reqVars, poll, loopVars, nData, metaOpens, lateMedia,
                   cleanups>>

\* process_all_prompts has no prompt left: main returns and the event loop
\* ends.
Exit ==
    /\ mainpc = "prompts"
    /\ b = NumPrompts(args)
    /\ mainpc' = "exit"
    /\ exitcode' = Some(0)
    /\ ShutDown
    /\ UNCHANGED <<env, call, args, b, reqVars, poll, loopVars, meta, metaOpens,
                   lateMedia, cleanups>>

\* ------------------------------------------------------- the specification

Next ==
    \/ CheckApiKey
    \/ ValidateOptions
    \/ ProcessGeneration
    \/ \E i \in Requests : RunRequest(i)
    \/ \E i \in Requests : SubscribeRequest(i)
    \/ \E i \in Requests : SubmitCall(i)
    \/ \E i \in Requests : StatusQuery(i)
    \/ \E i \in Requests : Sleep(i)
    \/ \E i \in Requests : ResultFetch(i)
    \/ AwaitResult
    \/ \E j \in Media : DownloadGet(j)
    \/ \E j \in Media : DownloadOpen(j)
    \/ \E j \in Media : DownloadRead(j)
    \/ GatherReturn
    \/ GatherRaise
    \/ \E p \in Prompts : OrphanGet(p)
    \/ \E p \in Prompts : OrphanOpen(p)
    \/ \E p \in Prompts : OrphanRead(p)
    \/ \E p \in Prompts : OrphanWrite(p)
    \/ \E p \in Prompts : OrphanReadUnlinked(p)
    \/ GenerateReturn
    \/ CleanupOpen
    \/ CleanupWrite
    \/ CleanupWriteFails
    \/ CleanupWalk
    \/ Exit

Spec == Init /\ [][Next]_vars

\* The invocations in submit mode, with the scheduling of the event loop: a
\* task that can take its next step takes it (a client call returns or
\* raises, a sleep ends), and so does the main coroutine.
InitPoll == Init /\ args.q = "submit"

NextPoll ==
    \/ CheckApiKey
    \/ ValidateOptions
    \/ ProcessGeneration
    \/ \E i \in Requests : SubmitCall(i)
    \/ \E i \in Requests : StatusQuery(i)
    \/ \E i \in Requests : Sleep(i)
    \/ \E i \in Requests : ResultFetch(i)
    \/ AwaitResult
    \/ \E j \in Media : DownloadGet(j)
    \/ \E j \in Media : DownloadOpen(j)
    \/ \E j \in Media : DownloadRead(j)
    \/ GatherReturn
    \/ GatherRaise
    \/ \E p \in Prompts : OrphanGet(p)
    \/ \E p \in Prompts : OrphanOpen(p)
    \/ \E p \in Prompts : OrphanRead(p)
    \/ \E p \in Prompts : OrphanWrite(p)
    \/ \E p \in Prompts : OrphanReadUnlinked(p)
    \/ GenerateReturn
    \/ CleanupOpen
    \/ CleanupWrite
    \/ CleanupWriteFails
    \/ CleanupWalk
    \/ Exit

PollFairness ==
    /\ \A i \in Requests : /\ WF_vars(SubmitCall(i))
                            /\ WF_vars(StatusQuery(i))
                            /\ WF_vars(Sleep(i))
                            /\ WF_vars(ResultFetch(i))
    /\ WF_vars(AwaitResult)
    /\ WF_vars(GenerateReturn)

PollSpec == InitPoll /\ [][NextPoll]_vars /\ PollFairness

\* ------------------------------------------------- the payload builders

\* Everything a run uses: a function called on its own leaves it alone.
runVars == <<env, exitcode, args, mainpc, b, reqVars, poll, loopVars, fsVars, cleanups>>

\* d[k] = v on a dict.
SetKey(d, k, v) == [x \in DOMAIN d \cup {k} |-> IF x = k THEN v ELSE d[x]]

\* A builder that writes a flag only when it is true.
IsTrue(x) == x # None /\ x[1]

\* build_base_args writes a flag x when `x is not None`.
IsNotNone(x) == x # None

build_base_args(prompt, out_fmt, safety, safety_check, sync) ==
    LET a0 == [prompt |-> prompt, num_images |-> 1]
        a1 == IF TruthyText(out_fmt) THEN SetKey(a0, "output_format", out_fmt[1]) ELSE a0
        a2 == IF TruthyText(safety) THEN SetKey(a1, "safety_tolerance", safety[1]) ELSE a1
        a3 == IF IsNotNone(safety_check)
              THEN SetKey(a2, "enable_safety_checker", safety_check[1]) ELSE a2
    IN  IF IsNotNone(sync) THEN SetKey(a3, "sync_mode", sync[1]) ELSE a3

add_ultra_args(a, ratio, raw) ==
    LET a1 == IF TruthyText(ratio) THEN SetKey(a, "aspect_ratio", ratio[1]) ELSE a
    IN  IF raw THEN SetKey(a1, "raw", raw) ELSE a1

\* The two forms of image_size: a JSON string, the name of a preset, and a
\* JSON object. The string is kept under a tag, so that the two compare.
PresetName(s) == [preset |-> s]
SizeObject(w, h) == [width |-> w, height |-> h]

\* An extender that takes a width or a height of 0 for an absent one.
HasDimsTruthy(w, h) == TruthyInt(w) /\ TruthyInt(h)

\* add_pro_args writes the object form of image_size for these w and h.
HasDims(w, h) == w # None /\ h # None

add_pro_args(a, size, w, h, guidance, steps) ==
    LET a1 == IF HasDims(w, h)
              THEN SetKey(a, "image_size", SizeObject(w[1], h[1]))
              ELSE IF TruthyText(size) THEN SetKey(a, "image_size", PresetName(size[1]))
              ELSE a
        a2 == IF guidance # None THEN SetKey(a1, "guidance_scale", guidance[1]) ELSE a1
    IN  IF steps # None THEN SetKey(a2, "num_inference_steps", steps[1]) ELSE a2

\* generate_images, base_args: the payload all requests of the batch start from.
BaseArgs(in) ==
    LET base == build_base_args(in.prompt, in.out_fmt, in.safety, in.safety_check,
                                in.sync)
    IN  IF in.model = "ultra"
        THEN add_ultra_args(base, in.ratio, IF in.raw # None THEN in.raw[1] ELSE FALSE)
        ELSE add_pro_args(base, in.size, in.w, in.h, in.guidance, in.steps)

\* The dicts of the process are objects of a heap: a sequence of dicts, the
\* address of a dict being its index.

\* A loop that hands every task the base dict itself.
ShareDict(heap, a) == [heap |-> heap, addr |-> a]

\* dict.copy(): a new object with the entries of the dict at address a.
CopyDict(heap, a) == [heap |-> Append(heap, heap[a]), addr |-> Len(heap) + 1]

\* generate_images, the loop that creates the tasks, from index i on: the heap
\* it leaves and the addresses of the payloads of the tasks.
RECURSIVE BuildTasks(_, _, _, _, _)
BuildTasks(heap, base, seed, i, count) ==
    IF i >= count THEN [heap |-> heap, tasks |-> <<>>]
    ELSE LET c == CopyDict(heap, base)
             h1 == IF seed # None
                   THEN [c.heap EXCEPT ![c.addr] = SetKey(@, "seed", seed[1] + i)]
                   ELSE c.heap
             rest == BuildTasks(h1, base, seed, i + 1, count)
         IN  [heap |-> rest.heap, tasks |-> <<c.addr>> \o rest.tasks]

\* generate_images up to its first await: base_args and the payload of every
\* task, as the tasks find them when they start.
TaskPayloads(in) ==
    LET r == BuildTasks(<<BaseArgs(in)>>, 1, in.seed, 0, in.count)
    IN  [base |-> r.heap[1],
         payloads |-> [k \in 1..Len(r.tasks) |-> r.heap[r.tasks[k]]]]

SeedValues == {None} \cup {Some(x) : x \in 0..MaxSeed}

\* The calls of generate_images tried.
GenerateInputs ==
    [prompt : {"a cat"}, count : 0..MaxCount, model : MODELS,
     ratio : {None}, raw : {None}, size : {None, Some("square")},
     w : {None}, h : {None}, guidance : {None}, steps : {None},
     out_fmt : {None, Some("png")}, safety : {None}, safety_check : {None},
     seed : SeedValues, sync : {None}]

GeneratePayloads ==
    /\ call.fn = "generate_images"
    /\ call.out = None
    /\ call' = [call EXCEPT !.out = Some(TaskPayloads(call.in))]
    /\ UNCHANGED runVars

\* The calls of build_base_args tried.
Flags == {None, Some(FALSE), Some(TRUE)}

BaseInputs ==
    [prompt : {"a cat"}, out_fmt : {None, Some(""), Some("png")},
     safety : {None, Some(""), Some("2")}, safety_check : Flags, sync : Flags]

BuildBaseArgs ==
    /\ call.fn = "build_base_args"
    /\ call.out = None
    /\ call' = [call EXCEPT !.out =
                  Some(build_base_args(call.in.prompt, call.in.out_fmt, call.in.safety,
                                       call.in.safety_check, call.in.sync))]
    /\ UNCHANGED runVars

\* The calls of add_ultra_args tried, on the payload build_base_args gives a
\* prompt.
UltraInputs == [ratio : {None, Some(""), Some("16:9")}, raw : BOOLEAN]

AddUltraArgs ==
    /\ call.fn = "add_ultra_args"
    /\ call.out = None
    /\ call' = [call EXCEPT !.out =
                  Some(add_ultra_args(build_base_args("a cat", None, None, None, None),
                                      call.in.ratio, call.in.raw))]
    /\ UNCHANGED runVars

\* process_generation, gen_args: the arguments generate_images is called
\* with for the namespace ns, a parameter left out being None, its default.
GenArgs(ns, prompt) ==
    LET pro == ns.model # "ultra"
        dims == TruthyInt(ns.w) /\ TruthyInt(ns.height)
    IN  [prompt |-> prompt, count |-> ns.n, model |-> ns.model,
         sync |-> Some(ns.sync),
         out_fmt |-> IF TruthyText(ns.o) THEN ns.o ELSE None,
         safety |-> IF TruthyText(ns.s) THEN ns.s ELSE None,
         safety_check |-> None,
         seed |-> ns.seed,
         ratio |-> IF ~pro /\ TruthyText(ns.a) THEN ns.a ELSE None,
         raw |-> IF ~pro /\ ns.raw THEN Some(ns.raw) ELSE None,
         w |-> IF pro /\ dims THEN ns.w ELSE None,
         h |-> IF pro /\ dims THEN ns.height ELSE None,
         size |-> IF pro /\ ~dims /\ TruthyText(ns.size) THEN ns.size ELSE None,
         guidance |-> IF pro THEN ns.g ELSE None,
         steps |-> IF pro THEN ns.i ELSE None]

\* The namespaces parse_args gives process_generation: those that
\* validate_model_args lets through.
Namespaces ==
    {ns \in [model : MODELS, n : 1..MaxCount, o : {None, Some("png")},
             s : {None, Some("2")}, seed : {None, Some(0)}, sync : BOOLEAN,
             no_safety : BOOLEAN, a : {Some("16:9")}, raw : BOOLEAN,
             size : {Some("landscape_16_9")},
             w : {None, Some(0), Some(MIN_DIM)},
             height : {None, Some(0), Some(MIN_DIM)},
             g : {None, Some(2 * MIN_GUIDANCE)}, i : {None}] :
        validate_model_args(ns).error = None}

\* process_generation up to the first await of generate_images: the payloads
\* of the requests.
ProcessGenerationPayloads ==
    /\ call.fn = "process_generation"
    /\ call.out = None
    /\ call' = [call EXCEPT !.out = Some(TaskPayloads(GenArgs(call.in, "a cat")))]
    /\ UNCHANGED runVars

\* ------------------------------------------------------ media file names

\* A string is a sequence of characters; "P" stands for the upper case
\* letters, "p" is its lower case.
Lower(c) == IF c = "P" THEN "p" ELSE c
LowerAll(str) == [k \in 1..Len(str) |-> Lower(str[k])]

Positions(str, c) == {k \in 1..Len(str) : str[k] = c}

\* str.split(c)[-1] and str.split(c)[0].
SplitLast(str, c) ==
    IF Positions(str, c) = {} THEN str
    ELSE LET k == CHOOSE x \in Positions(str, c) : \A y \in Positions(str, c) : y <= x
         IN  SubSeq(str, k + 1, Len(str))
SplitFirst(str, c) ==
    IF Positions(str, c) = {} THEN str
    ELSE LET k == CHOOSE x \in Positions(str, c) : \A y \in Positions(str, c) : x <= y
         IN  SubSeq(str, 1, k - 1)

\* str[:n].
Take(str, n) == SubSeq(str, 1, IF Len(str) < n THEN Len(str) ELSE n)

\* save_generated_images: flux_id, ext and the name of the file of a URL.
FluxId(url) == Take(SplitFirst(SplitLast(url, "/"), "_"), ID_LEN)
UrlExt(url) == LowerAll(SplitLast(url, "."))
FileName(url) == FluxId(url) \o <<".">> \o UrlExt(url)

\* os.path.join(out_dir, name), for a name that does not start with "/".
JoinPath(dir, name) == dir \o <<"/">> \o name

RECURSIVE Repeat(_, _)
Repeat(c, n) == IF n = 0 THEN <<>> ELSE <<c>> \o Repeat(c, n - 1)

RECURSIVE StringsUpTo(_, _)
StringsUpTo(alphabet, n) ==
    IF n = 0 THEN {<<>>}
    ELSE LET shorter == StringsUpTo(alphabet, n - 1)
         IN  shorter \cup {Append(str, c) : str \in shorter, c \in alphabet}

\* The URLs tried: a host ("h.c" or "h") and a slash, up to MaxStem letters,
\* and up to MaxTail more characters.
UrlInputs ==
    {head \o Repeat("a", n) \o tail :
        head \in {<<"h", ".", "c", "/">>, <<"h", "/">>},
        n \in 0..MaxStem,
        tail \in StringsUpTo({"b", "_", ".", "/", "P"}, MaxTail)}

DeriveFileName ==
    /\ call.fn = "fname"
    /\ call.out = None
    /\ call' = [call EXCEPT !.out = Some(JoinPath(call.in.out_dir, FileName(call.in.url)))]
    /\ UNCHANGED runVars

\* ------------------------------------------- the downloads of one result

\* What the server and the connection do to one GET: a status (with a body
\* that is read), or an exception of session.get, or one of resp.read.
Answers ==
    {[kind |-> "status", code |-> c] : c \in {HTTP_OK, 204, 404}}
    \cup {[kind |-> "get raises", code |-> 0], [kind |-> "read raises", code |-> 0]}

AnswerRaises(answer) == answer.kind # "status"

\* A download that takes every 2xx status for a success.
IsSuccess2xx(code) == code \in 200..299

\* download_image writes the file and returns its name for this status only.
IsOk(code) == code = HTTP_OK

\* download_image: the value returned when nothing raises.
download_image(answer, fname) == IF IsOk(answer.code) THEN Some(fname) ELSE None

\* A gather that lists the outcomes as the tasks completed.
GatherByCompletion(outcomes, completion) ==
    [k \in 1..Len(outcomes) |-> outcomes[completion[k]]]

\* asyncio.gather(*tasks): the outcomes in the order of the tasks, whatever
\* the order in which they completed.
Gather(outcomes, completion) == outcomes

\* download_all_images over the pairs, the GETs being answered by answers and
\* the tasks completing in the order completion: the list, or the exception
\* of the first task that raised.
download_all_images(pairs, answers, completion) ==
    IF \E j \in 1..Len(pairs) : AnswerRaises(answers[j])
    THEN [raised |-> TRUE, value |-> <<>>]
    ELSE [raised |-> FALSE,
          value |-> Gather([j \in 1..Len(pairs) |-> download_image(answers[j], pairs[j][2])],
                           completion)]

\* save_generated_images(result, out_dir): what download_all_images gave and
\* what the function returns. result.images is None for a result without
\* the key "images".
save_generated_images(result, dir, answers, completion) ==
    IF result.images = None
    THEN [raised |-> FALSE, downloaded |-> <<>>, returned |-> None]
    ELSE LET urls == result.images[1]
             urls_and_files ==
                 [j \in 1..Len(urls) |-> <<urls[j], JoinPath(dir, FileName(urls[j]))>>]
             d == download_all_images(urls_and_files, answers, completion)
         IN  [raised |-> d.raised, downloaded |-> d.value,
              returned |-> IF d.value # <<>> THEN d.value[1] ELSE None]

\* The orders in which n tasks can complete.
Orders(n) == {f \in [1..n -> 1..n] : \A x, y \in 1..n : f[x] = f[y] => x = y}

RECURSIVE ListsUpTo(_, _)
ListsUpTo(S, n) ==
    IF n = 0 THEN {<<>>}
    ELSE LET shorter == ListsUpTo(S, n - 1)
         IN  shorter \cup {Append(l, x) : l \in shorter, x \in S}

\* The media URLs of the results tried: h/a_b.p and h/b_b.p.
MediaUrls == {<<"h", "/", "a", "_", "b", ".", "p">>, <<"h", "/", "b", "_", "b", ".", "p">>}

\* The calls of save_generated_images tried: a result without images or with
\* up to MaxMedia of them, every answer to every GET, every completion order.
SaveInputs ==
    {[result |-> [images |-> None], out_dir |-> <<"o">>, answers |-> <<>>,
      completion |-> <<>>]}
    \cup {[result |-> [images |-> Some(urls)], out_dir |-> <<"o">>, answers |-> a,
           completion |-> c] :
              urls \in ListsUpTo(MediaUrls, MaxMedia),
              a \in ListsUpTo(Answers, MaxMedia),
              c \in UNION {Orders(n) : n \in 0..MaxMedia}}

SaveGeneratedImages ==
    /\ call.fn = "save_generated_images"
    /\ call.out = None
    /\ call' = [call EXCEPT !.out =
                  Some(save_generated_images(call.in.result, call.in.out_dir,
                                             call.in.answers, call.in.completion))]
    /\ UNCHANGED runVars

\* AddProArgs: add_pro_args on the payload build_base_args gives a prompt.
ProInputs ==
    [size : {None, Some(""), Some("square")},
     w : {None, Some(0), Some(MIN_DIM)}, h : {None, Some(0), Some(MIN_DIM)},
     guidance : {None, Some(7)}, steps : {None}]

AddProArgs ==
    /\ call.fn = "add_pro_args"
    /\ call.out = None
    /\ call' = [call EXCEPT !.out =
                  Some(add_pro_args(build_base_args("a cat", None, None, None, None),
                                    call.in.size, call.in.w, call.in.h,
                                    call.in.guidance, call.in.steps))]
    /\ UNCHANGED runVars

\* validate_model_args on a namespace.
ValidateModelArgs ==
    /\ call.fn = "validate_model_args"
    /\ call.out = None
    /\ call' = [call EXCEPT !.out = Some(validate_model_args(call.in))]
    /\ UNCHANGED runVars

\* ------------------------------------------------------ the subscribe mode

\* What the service sends for a subscribed request: log lines while the
\* request is in progress (line j has the message j), then the result.
LogLines(k) == [j \in 1..k |-> [message |-> j]]

\* The final result of a request, and an in-progress notification with its
\* log lines.
FinalResult == [images |-> <<>>]
InProgress(logs) == [logs |-> logs]

\* isinstance(result, fal_client.InProgress)
IsInProgress(result) == DOMAIN result = {"logs"}

\* The on_queue_update argument process_single_image gives subscribe_async:
\* none.
OnQueueUpdate == None

\* fal_client.subscribe_async: the events are handed to on_queue_update, if
\* there is one, as they arrive; the value is what the stream ends with.
subscribe_async(stream, on_queue_update) ==
    [handed |-> IF on_queue_update # None THEN stream.logs ELSE <<>>,
     value |-> stream.last]

\* process_single_image, mode "subscribe": the messages printed while the
\* call is running, those printed after it, and the value returned.
process_single_image(stream) ==
    LET r == subscribe_async(stream, OnQueueUpdate)
        result == r.value
    IN  [during |-> [j \in 1..Len(r.handed) |-> r.handed[j].message],
         after |-> IF IsInProgress(result)
                   THEN [j \in 1..Len(result.logs) |-> result.logs[j].message]
                   ELSE <<>>,
         returned |-> SubscribeReturn(result)]

\* The streams tried: up to MaxLogs log lines, ended by the final result or,
\* as the code provides for, by an in-progress notification.
Streams ==
    UNION {{[logs |-> LogLines(k), last |-> FinalResult],
            [logs |-> LogLines(k), last |-> InProgress(LogLines(k))]} : k \in 0..MaxLogs}

ProcessSingleImage ==
    /\ call.fn = "process_single_image"
    /\ call.out = None
    /\ call' = [call EXCEPT !.out = Some(process_single_image(call.in))]
    /\ UNCHANGED runVars

\* ------------------------------------------------- the start of the tasks

\* set(tasks): the order in which the set is iterated, slots[k] being the
\* position in tasks of the k-th element. The coroutine objects hash by
\* address, so any order can come out.
SetOrder(tasks, slots) == [k \in 1..Len(tasks) |-> tasks[slots[k]]]

\* asyncio.as_completed(tasks): every coroutine of set(tasks) is made a task
\* in the order of the set, and the tasks take their first step, the call of
\* the client, in the order they were made.
as_completed(tasks, slots) == [started |-> SetOrder(tasks, slots)]

\* The batches tried: up to MaxCount requests, every order of the set.
StartInputs ==
    UNION {{[tasks |-> [i \in 1..n |-> i - 1], slots |-> o] : o \in Orders(n)} :
              n \in 0..MaxCount}

StartTasks ==
    /\ call.fn = "as_completed"
    /\ call.out = None
    /\ call' = [call EXCEPT !.out = Some(as_completed(call.in.tasks, call.in.slots))]
    /\ UNCHANGED runVars

\* ---------------------------------------- functions called on their own

FuncCalls ==
    {[fn |-> "generate_images", in |-> x, out |-> None] : x \in GenerateInputs}
    \cup {[fn |-> "fname", in |-> [url |-> u, out_dir |-> <<"o">>], out |-> None] :
              u \in UrlInputs}
    \cup {[fn |-> "add_pro_args", in |-> x, out |-> None] : x \in ProInputs}
    \cup {[fn |-> "build_base_args", in |-> x, out |-> None] : x \in BaseInputs}
    \cup {[fn |-> "process_single_image", in |-> x, out |-> None] : x \in Streams}
    \cup {[fn |-> "as_completed", in |-> x, out |-> None] : x \in StartInputs}
    \cup {[fn |-> "add_ultra_args", in |-> x, out |-> None] : x \in UltraInputs}
    \cup {[fn |-> "process_generation", in |-> x, out |-> None] : x \in Namespaces}
    \cup {[fn |-> "validate_model_args", in |-> x, out |-> None] : x \in ValidateInputs}
    \cup {[fn |-> "save_generated_images", in |-> x, out |-> None] :
              x \in {y \in SaveInputs :
                        /\ y.result.images # None => Len(y.answers) = Len(y.result.images[1])
                        /\ Len(y.completion) = Len(y.answers)}}

InitFunc ==
    /\ args = [q |-> "subscribe", n |-> 1, poll |-> POLL_INTERVAL,
               file |-> FALSE, od |-> FALSE, prompts |-> 1, opts |-> NoOptions]
    /\ env = [FAL_KEY |-> Some("key")]
    /\ call \in FuncCalls
    /\ Fresh

NextFunc ==
    \/ GeneratePayloads
    \/ DeriveFileName
    \/ SaveGeneratedImages
    \/ AddProArgs
    \/ ValidateModelArgs
    \/ BuildBaseArgs
    \/ AddUltraArgs
    \/ ProcessGenerationPayloads
    \/ ProcessSingleImage
    \/ StartTasks

FuncSpec == InitFunc /\ [][NextFunc]_vars

\* ------------------------------------------------------- derived notions

\* The requests of the current batch.
Batch == {i \in Requests : i <= args.n}

\* generate_images has returned for the current batch.
Returned ==
    \/ mainpc \in {"cleanup", "write", "walk", "exit", "error"}
    \/ mainpc = "prompts" /\ b > 0

\* process_generation has just returned for the current batch.
Finished == mainpc = "prompts" /\ b > 0

\* The requests whose dispatch raised, and those whose dispatch gave a result.
DispatchFailed == {i \in Batch : pc[i] = "raised"}
DispatchOk == {i \in Batch : pc[i] = "done"}

\* The requests of the results list.
InResults == {results[k].request : k \in 1..Len(results)}

\* The place of request i in the completion order.
Rank(i) == CHOOSE k \in 1..Len(order) : order[k] = i

\* The downloads of prompt p that a gather left behind and that still run.
LiveOrphans(p) ==
    orphans[p].get + orphans[p].open + orphans[p].read + orphans[p].write
    + orphans[p].unlinked

\* A text that json.dumps of a list can have produced.
IsDocument(text) ==
    /\ Len(text) >= 2
    /\ text[1].tok = "["
    /\ text[Len(text)].tok = "]"
    /\ \A k \in 2..(Len(text) - 1) : text[k].tok = "item"

\* ---------------------------------------------------------------- claims

\* C1: generate_images tolerates partial failure: when k requests raise in
\* their dispatch, the returned list has exactly n - k results and the failure
\* counter is k; at every turn of the loop len(results) + failed is the number
\* of requests consumed so far.
C1_PartialFailureCounts ==
    /\ mainpc = "generate" => Len(results) + failed = consumed
    /\ Returned => /\ Len(results) = args.n - Cardinality(DispatchFailed)
                   /\ failed = Cardinality(DispatchFailed)

\* C2: the returned list is in completion order: a result whose request
\* completed earlier stands earlier in the list, whatever the request indexes.
C2_CompletionOrder ==
    \A x, y \in 1..Len(results) :
        x < y => Rank(results[x].request) < Rank(results[y].request)

\* C2, witness: two results are in the list, the one of request 2 first.
C2_Witness ==
    /\ Returned
    /\ Len(results) = 2
    /\ results[1].request = 2
    /\ results[2].request = 1

\* C3: a failed media fetch never reaches the orchestrator as an error: every
\* request whose generation succeeded is in the returned list and only the
\* requests whose dispatch raised are counted as failures.
C3_FetchFailureIsData ==
    Returned => /\ \A i \in DispatchOk : i \in InResults
                /\ failed = Cardinality(DispatchFailed)

\* C4: when process_generation has returned, the output directory holds no
\* zero-byte file, and metadata.json is there and reads back as the list
\* generate_images returned, in the same order.
C4_AfterRun ==
    Finished => /\ nEmpty[out_dir] = 0
                /\ meta[out_dir].exists
                /\ MetaSize(out_dir) > 0
                /\ Loads(meta[out_dir].content) = results

\* C5: cleanup runs exactly once per batch, and only when every request and
\* every media download of the batch has reached a terminal state, whatever
\* the number of failed requests.
C5_CleanupOnceAtEnd ==
    /\ cleanups <= 1
    /\ Finished => cleanups = 1
    /\ cleanups = 1 => /\ \A i \in Batch : pc[i] \in Terminal
                       /\ dl = <<>>
                       /\ mainpc \in {"cleanup", "write", "walk"} => LiveOrphans(b) = 0

\* C6: metadata.json of a directory is written exactly once in an invocation
\* and no media file is written to the directory after it.
C6_MetadataWrittenOnceAndLast ==
    \A d \in Dirs : metaOpens[d] <= 1 /\ ~lateMedia[d]

\* C7: metadata.json never exists with a content other than a complete
\* serialized result list: no empty or partial file is ever visible.
C7_MetadataAtomic ==
    \A d \in Dirs : meta[d].exists => IsDocument(meta[d].content)

\* C8: in each of the three queue modes process_single_image returns the final
\* result the service produced for the request, and the calls made are those
\* of the mode alone: one run call per request; one subscribe call per request;
\* one submit call per request, status queries, and one result fetch per
\* request that saw its completion.
C8_ModesAgree ==
    b > 0 =>
    /\ \A i \in DispatchOk : ret[i] = ServiceResult(b, i)
    /\ args.q = "run" =>
          calls = [NoCalls EXCEPT !.run = Cardinality({i \in Batch : pc[i] # "run"})]
    /\ args.q = "subscribe" =>
          calls = [NoCalls EXCEPT
                     !.subscribe = Cardinality({i \in Batch : pc[i] # "subscribe"})]
    /\ args.q = "submit" =>
          /\ calls.run = 0 /\ calls.subscribe = 0
          /\ calls.submit = Cardinality({i \in Batch : pc[i] # "submit"})
          /\ calls.result >= Cardinality(DispatchOk)
          /\ calls.result <= Cardinality(DispatchOk \cup DispatchFailed)
          /\ DispatchOk # {} => calls.status >= 1

\* C8, witness: in submit mode a request has returned the service's result
\* after more than one status query.
C8_Witness ==
    /\ args.q = "submit"
    /\ pc[1] = "done"
    /\ ret[1] = ServiceResult(b, 1)
    /\ calls.status >= 2

\* C10: every sleep of the poll loop lasts the interval the user configured
\* with --poll.
C10_SleepsConfiguredInterval ==
    \A t \in slept : t = args.poll

\* C9: the poll loop has no deadline. A request leaves the loop only when a
\* status query reports COMPLETED (then it fetches the result and returns) or
\* when a client call raises; after any other status it sleeps and queries
\* again, for ever if need be, and as long as a request polls the batch is not
\* over and cleanup does not run. Once COMPLETED is reported the request
\* reaches its terminal state.
C9_PollNoDeadline ==
    /\ [](\A i \in Batch :
            /\ pc[i] = "result" => status[i] = "COMPLETED"
            /\ pc[i] = "sleep" => status[i] \in StatusAnswers \ {"COMPLETED"})
    /\ [][\A i \in Batch :
            /\ (pc[i] \in {"status", "sleep"} /\ pc'[i] \notin {"status", "sleep"})
                  => pc'[i] \in {"result", "raised"}
            /\ (pc[i] # "done" /\ pc'[i] = "done") => pc[i] = "result"]_vars
    /\ [](cleanups = 1 => \A i \in Batch : pc[i] \in Terminal)
    /\ \A i \in Requests : (pc[i] = "result") ~> (pc[i] \in Terminal)
    /\ \A i \in Requests : (pc[i] = "sleep") ~> (pc[i] = "status")

\* C9, witness: the only request of a batch sleeps after MaxPolls status
\* queries that did not report its completion, and cleanup has not run.
C9_Witness ==
    /\ args.q = "submit"
    /\ args.n = 1
    /\ pc[1] = "sleep"
    /\ calls.status = MaxPolls
    /\ cleanups = 0

\* The client calls process_single_image makes in a queue mode.
CallsOfMode(mode) ==
    IF mode = "submit" THEN {"submit", "status", "result"} ELSE {mode}

\* C11: an error of a client call is neither retried nor caught nor changed by
\* the dispatcher: a request makes at most one submission call, a request that
\* raised holds the very exception its client call raised, it stays as it is
\* until the batch is over, and generate_images counts it when it awaits it.
C11_ErrorsReachOrchestrator ==
    /\ [](b > 0 =>
            /\ calls.run + calls.subscribe + calls.submit <= Cardinality(Batch)
            /\ \A i \in DispatchFailed :
                  \E kind \in CallsOfMode(args.q) : ret[i] = ClientError(kind, b, i)
            /\ failed >= Cardinality({i \in DispatchFailed :
                                        \A k \in 1..Len(doneQ) : doneQ[k] # i}))
    /\ [][\A i \in Requests :
            (pc[i] = "raised" /\ b' = b) => (pc'[i] = "raised" /\ ret'[i] = ret[i])]_vars

\* C11, witness: in submit mode the second status query of a request raised,
\* and generate_images has counted the failure.
C11_Witness ==
    /\ args.q = "submit"
    /\ pc[1] = "raised"
    /\ ret[1] = ClientError("status", b, 1)
    /\ calls.status >= 2
    /\ failed = 1

\* C12: generate_images with count = n builds n payloads that are the base
\* payload but for the seed: with a seed s (0 too) payload i, from 0, has
\* seed = s + i, so the seeds differ pairwise; without a seed no payload has
\* the key; the base payload is as it was built and has no seed.
C12_SeedPerRequest ==
    (call.fn = "generate_images" /\ call.out # None) =>
        LET in == call.in
            out == call.out[1]
            base == BaseArgs(in)
        IN  /\ Len(out.payloads) = in.count
            /\ out.base = base
            /\ "seed" \notin DOMAIN out.base
            /\ \A k \in 1..in.count :
                  out.payloads[k] = IF in.seed # None
                                    THEN SetKey(base, "seed", in.seed[1] + (k - 1))
                                    ELSE base
            /\ \A j, k \in 1..in.count :
                  (in.seed # None /\ j # k) => out.payloads[j]["seed"] # out.payloads[k]["seed"]

\* C12, witness: two payloads were built from the seed 0; the second has the
\* seed 1.
C12_Witness ==
    /\ call.fn = "generate_images"
    /\ call.out # None
    /\ call.in.seed = Some(0)
    /\ call.in.count >= 2
    /\ call.out[1].payloads[2]["seed"] = 1

\* The final path segment of a URL, and its file extension: what follows the
\* last dot of the final segment (nothing when the segment has no dot).
FinalSegment(url) == SplitLast(url, "/")
FileExtension(url) ==
    IF Positions(FinalSegment(url), ".") = {} THEN <<>>
    ELSE SplitLast(FinalSegment(url), ".")

\* C15: the destination of a media URL is <out_dir>/<id>.<ext>: id is the
\* first ID_LEN characters of what precedes the first underscore of the URL's
\* final path segment, ext is the URL's file extension (in lower case), and
\* the name is a file name: <id>.<ext>, with no directory part.
C15_FileNameForm ==
    (call.fn = "fname" /\ call.out # None) =>
        LET url == call.in.url
            id == Take(SplitFirst(FinalSegment(url), "_"), ID_LEN)
            name == id \o <<".">> \o LowerAll(FileExtension(url))
        IN  /\ Len(id) <= ID_LEN
            /\ Positions(name, "/") = {}
            /\ call.out[1] = call.in.out_dir \o <<"/">> \o name

\* A call of save_generated_images has returned a value: no download raised.
SaveReturned ==
    /\ call.fn = "save_generated_images"
    /\ call.out # None
    /\ ~call.out[1].raised

\* The destination of media j of the call.
PathOf(j) == JoinPath(call.in.out_dir, FileName(call.in.result.images[1][j]))

\* The media of the call: none for a result without images.
NumMedia == IF call.in.result.images = None THEN 0 ELSE Len(call.in.result.images[1])

Succeeded == {j \in 1..NumMedia : call.in.answers[j].code = 200}

\* C14: save_generated_images returns the first successfully written path in
\* descriptor order, and none only when no download of the result succeeded
\* or the result has no media.
C14_FirstSuccessfulPath ==
    SaveReturned =>
        call.out[1].returned =
            IF Succeeded = {} THEN None
            ELSE Some(PathOf(CHOOSE j \in Succeeded : \A k \in Succeeded : j <= k))

\* validate_model_args was called for the standard variant and has ended.
ValidatedPro ==
    /\ call.fn = "validate_model_args"
    /\ call.out # None
    /\ call.in.model = "pro"

\* C17: for the standard variant, with guidance and steps absent, validation
\* accepts width and height exactly when both are absent, or both are
\* supplied and each is in [MIN_DIM, MAX_DIM]: one of them alone always
\* raises (0 too), and both with one out of the range always raises.
C17_WidthHeightPair ==
    (ValidatedPro /\ call.in.g = None /\ call.in.i = None) =>
        LET w == call.in.w
            h == call.in.height
        IN  (call.out[1].error = None) <=>
                \/ w = None /\ h = None
                \/ /\ w # None /\ h # None
                   /\ 256 <= w[1] /\ w[1] <= 14142
                   /\ 256 <= h[1] /\ h[1] <= 14142

\* C18: for the standard variant validation raises whenever guidance is
\* supplied outside [1, 20] or steps is supplied outside [1, 50]; with width
\* and height absent it passes for every supplied value inside the ranges,
\* the ends included, and for an absent field.
C18_GuidanceStepsRanges ==
    ValidatedPro =>
        LET g == call.in.g
            i == call.in.i
            gBad == g # None /\ ~(2 <= g[1] /\ g[1] <= 40)
            iBad == i # None /\ ~(1 <= i[1] /\ i[1] <= 50)
        IN  /\ (gBad \/ iBad) => call.out[1].error # None
            /\ (call.in.w = None /\ call.in.height = None /\ ~gBad /\ ~iBad)
                  => call.out[1].error = None

\* C18, witness: guidance 20 and steps 50, the upper ends, have passed.
C18_Witness ==
    /\ ValidatedPro
    /\ call.in.g = Some(40)
    /\ call.in.i = Some(50)
    /\ call.in.w = None /\ call.in.height = None
    /\ call.out[1].error = None

\* C19: the warning path never raises: for the ultra variant
\* validate_model_args returns normally whatever size, guidance, steps, width
\* and height are; for the standard variant an aspect ratio or raw only
\* prints the warning: the outcome is that of the same options without them.
C19_WarningNeverRaises ==
    (call.fn = "validate_model_args" /\ call.out # None) =>
        /\ call.in.model = "ultra" => call.out[1].error = None
        /\ call.in.model = "pro" =>
              /\ call.out[1].error = validate_pro_args(call.in)
              /\ (call.in.a # None \/ call.in.raw) => call.out[1].warning

\* C19, witness: the ultra variant with guidance 20.5, steps 51 and a width
\* alone has been validated with a warning and no error.
C19_Witness ==
    /\ call.fn = "validate_model_args"
    /\ call.out # None
    /\ call.in.model = "ultra"
    /\ call.in.g = Some(41)
    /\ call.in.i = Some(51)
    /\ call.in.w = Some(255) /\ call.in.height = None
    /\ call.out[1] = [warning |-> TRUE, error |-> None]

\* C20: add_pro_args writes image_size as the object {width, height} when
\* width and height are both given, a preset or not; as the preset name when
\* a preset is given and not both; and leaves the key out when neither a
\* preset nor both dimensions are given. A preset is given by its name: the
\* empty string names none.
C20_ImageSizeForms ==
    (call.fn = "add_pro_args" /\ call.out # None) =>
        LET in == call.in
            payload == call.out[1]
            both == in.w # None /\ in.h # None
            preset == in.size # None /\ in.size # Some("")
        IN  /\ both => /\ "image_size" \in DOMAIN payload
                       /\ payload["image_size"] = [width |-> in.w[1], height |-> in.h[1]]
            /\ (~both /\ preset) =>
                       /\ "image_size" \in DOMAIN payload
                       /\ payload["image_size"] = [preset |-> in.size[1]]
            /\ (~both /\ ~preset) => "image_size" \notin DOMAIN payload

\* C20, witness: with a preset and both dimensions, one of them 0, the
\* payload has the object form.
C20_Witness ==
    /\ call.fn = "add_pro_args"
    /\ call.out # None
    /\ call.in.size = Some("square")
    /\ call.in.w = Some(0)
    /\ call.in.h = Some(256)
    /\ call.out[1]["image_size"] = [width |-> 0, height |-> 256]

\* The process has gone past the start of main: the command line is being
\* parsed or validated, or a batch has been started or a request made.
PastKeyCheck ==
    \/ mainpc \notin {"start", "abort"}
    \/ b > 0
    \/ calls # NoCalls
    \/ issued > 0

\* process_all_prompts has been entered: payloads are built and requests sent
\* from here on only.
PastValidation ==
    \/ mainpc \notin {"start", "parse", "abort"}
    \/ b > 0
    \/ calls # NoCalls
    \/ issued > 0

\* C16: nothing is built or sent unless the credential check and the
\* validation of the options both succeeded first. With FAL_KEY missing or
\* empty the process never parses, validates or requests, and where it has
\* ended its exit status is 1; with options that fail validation it never
\* starts a batch or makes a call, and where it has ended its status is 1.
C16_ChecksBeforeRequests ==
    LET noKey == env.FAL_KEY = None \/ env.FAL_KEY = Some("")
        invalid == validate_model_args(args.opts).error # None
    IN  /\ PastKeyCheck => ~noKey
        /\ PastValidation => ~noKey /\ ~invalid
        /\ (noKey \/ invalid) =>
              /\ mainpc = "abort" => exitcode = Some(1)
              /\ mainpc \in {"start", "parse", "abort"}
        /\ (mainpc = "abort") <=> (exitcode # None /\ (noKey \/ invalid) /\ b = 0)

\* C16, witness: the process has ended with status 1 on an empty FAL_KEY,
\* with no call made.
C16_Witness ==
    /\ env.FAL_KEY = Some("")
    /\ mainpc = "abort"
    /\ exitcode = Some(1)
    /\ calls = NoCalls

\* A preset, a width or a height is given to add_pro_args.
AnySizing(in) == (in.size # None /\ in.size # Some("")) \/ in.w # None \/ in.h # None

\* C21: whenever a preset, a width or a height is given to add_pro_args, the
\* payload holds image_size, in one of its two forms; and the preset form is
\* written only when neither a width nor a height is given.
C21_SizingGivesOneForm ==
    (call.fn = "add_pro_args" /\ call.out # None) =>
        LET payload == call.out[1]
        IN  /\ AnySizing(call.in) =>
                  /\ "image_size" \in DOMAIN payload
                  /\ DOMAIN payload["image_size"] \in {{"preset"}, {"width", "height"}}
            /\ ("image_size" \in DOMAIN payload /\ DOMAIN payload["image_size"] = {"preset"})
                  => call.in.w = None /\ call.in.h = None

\* An optional string is given: it is there and not empty.
TextGiven(x) == x # None /\ x # Some("")

BaseKeys == {"prompt", "num_images"}
OptionalKeys == {"output_format", "safety_tolerance", "enable_safety_checker", "sync_mode"}

C23_KeysIffOptions ==
    (call.fn = "process_generation" /\ call.out # None) =>
        LET ns == call.in
            payloads == call.out[1].payloads
        IN  \A k \in 1..Len(payloads) :
                LET payload == payloads[k]
                IN  /\ ("sync_mode" \in DOMAIN payload) <=> ns.sync
                    /\ ("enable_safety_checker" \in DOMAIN payload) <=> ns.no_safety
                    /\ ns.no_safety => payload["enable_safety_checker"] = FALSE
                    /\ ("output_format" \in DOMAIN payload) <=> ns.o # None
                    /\ ("safety_tolerance" \in DOMAIN payload) <=> ns.s # None
                    /\ ("seed" \in DOMAIN payload) <=> ns.seed # None

\* Directory d holds a media file or a metadata.json.
HoldsFiles(d) == nEmpty[d] > 0 \/ nData[d] > 0 \/ meta[d].exists

\* C25: when -od is given, every media file and every metadata.json of the
\* run is in that directory (directory 0), for a prompt given with -p as for
\* prompts read from a file.
C25_OutputDirHonoured ==
    args.od => \A d \in Dirs \ {0} : ~HoldsFiles(d)

\* C26: in poll mode a request is submitted once, its result is fetched once
\* and only directly after a status query that answered COMPLETED, and it
\* sleeps once after every status query that answered otherwise, and only
\* then: never before the first query and never after the completing one.
C26_PollSequence ==
    /\ [](b > 0 =>
            /\ calls.submit = Cardinality({i \in Batch : args.q = "submit" /\ pc[i] # "submit"})
            /\ calls.result = Cardinality({i \in Batch : args.q = "submit" /\ pc[i] = "done"})
                              + Cardinality({i \in Batch : pc[i] = "raised"
                                                           /\ ret[i].error = "result"}))
    /\ [][b' = b =>
            \A i \in Requests :
                /\ pc'[i] = "submit" => pc[i] = "submit"
                /\ (pc[i] = "submit" /\ pc'[i] # "submit") => pc'[i] \in {"status", "raised"}
                /\ (pc'[i] = "result" /\ pc[i] # "result") =>
                        pc[i] = "status" /\ status'[i] = "COMPLETED"
                /\ (pc[i] = "result" /\ pc'[i] # "result") =>
                        pc'[i] \in Terminal /\ calls'.result = calls.result + 1
                /\ (pc'[i] = "sleep" /\ pc[i] # "sleep") =>
                        pc[i] = "status" /\ status'[i] \in {"IN_QUEUE", "IN_PROGRESS"}
                /\ (pc[i] = "status" /\ status'[i] # status[i]) =>
                        \/ pc'[i] = "raised"
                        \/ pc'[i] = "result" /\ status'[i] = "COMPLETED"
                        \/ pc'[i] = "sleep" /\ status'[i] # "COMPLETED"
                /\ (pc[i] = "status" /\ status'[i] = status[i]) =>
                        pc'[i] \in {"status", "raised"}
                           \/ (pc'[i] = "result" /\ status[i] = "COMPLETED")
                           \/ (pc'[i] = "sleep" /\ status[i] # "COMPLETED")
                /\ (pc[i] = "sleep" /\ pc'[i] # "sleep") =>
                        pc'[i] = "status" /\ poll \in slept'
                /\ pc[i] \in Terminal => pc'[i] = pc[i]]_vars

\* C26, witness: a request of poll mode has returned the fetched result
\* after two status queries and a sleep.
C26_Witness ==
    /\ args.q = "submit"
    /\ \E i \in Batch : pc[i] = "done" /\ ret[i] = ServiceResult(b, i)
    /\ args.n = 1
    /\ calls.status >= 2
    /\ calls.result = 1
    /\ slept # {}

\* C24: cleanup removes exactly the files of size zero under the output
\* directory and leaves every non-empty file as it is: after the walk the
\* directory holds no empty file, the metadata.json just written is there
\* with the list of results (the empty list too), the non-empty media files
\* are all there, no file that has been written is removed, and the other
\* directories are untouched.
C24_CleanupRemovesEmptyOnly ==
    [][(mainpc = "walk" /\ mainpc' = "prompts") =>
          /\ nEmpty'[out_dir] = 0
          /\ \A d \in Dirs \ {out_dir} : nEmpty'[d] = nEmpty[d] /\ meta'[d] = meta[d]
          /\ nData' = nData
          /\ meta'[out_dir] = [exists |-> TRUE, content |-> Dumps(results)]
          /\ \A p \in Prompts : orphans'[p].lost = orphans[p].lost]_vars

\* The main coroutine is over: the process ends.
Ended == mainpc \in {"exit", "error", "abort"}

\* C27: every task runs to its own terminal state. A request that raises
\* changes no other request of the batch, and generate_images returns only
\* when every request has ended. The downloads of a result are given up only
\* when each has ended, a download that has written its file keeps its
\* outcome in the results whatever its siblings did, and no download is
\* cancelled when the process ends.
C27_TasksRunToTerminal ==
    [][/\ \A i \in Requests :
              (pc'[i] = "raised" /\ pc[i] # "raised") =>
                  \A j \in Requests \ {i} : pc'[j] = pc[j]
       /\ (mainpc = "generate" /\ mainpc' = "cleanup") =>
              \A i \in Batch : pc[i] \in Terminal
       /\ (cur # 0 /\ cur' = 0) =>
              /\ \A j \in DOMAIN dl : dl[j] \notin Live
              /\ (\E j \in DOMAIN dl : dl[j] = "done") => results' = Append(results, ret[cur])
       /\ (Ended' /\ ~Ended) => \A p \in Prompts : LiveOrphans(p) = 0]_vars

\* A download of the result being saved is in flight.
SavingInFlight == \E j \in DOMAIN dl : dl[j] \in Live

\* C30: the downloads in flight belong to at most one result: while the
\* downloads of the result being saved run, no download of a result taken
\* earlier is still running, and downloads of two prompts never run together.
C30_DownloadsOfOneResult ==
    /\ SavingInFlight => \A p \in Prompts : LiveOrphans(p) = 0
    /\ Cardinality({p \in Prompts : LiveOrphans(p) > 0}) <= 1

\* C28: in subscribe mode every log line the service sends is printed while
\* the call is running, before the value is returned, and the value returned
\* is the final result, never an in-progress notification.
C28_LogsSurfaced ==
    (call.fn = "process_single_image" /\ call.out # None) =>
        /\ call.out[1].during = [j \in 1..Len(call.in.logs) |-> call.in.logs[j].message]
        /\ ~IsInProgress(call.out[1].returned)
        /\ call.out[1].returned = FinalResult

\* C29: the requests of a batch are started in index order: request i takes
\* its first step before request i + 1.
C29_IssuedInIndexOrder ==
    (call.fn = "as_completed" /\ call.out # None) =>
        \A k \in 1..Len(call.out[1].started) : call.out[1].started[k] = k - 1

====
